---- MODULE Spec2Model ----
(***************************************************************************)
(* Sunbreeze: route registration, lookup and request dispatch.             *)
(*                                                                         *)
(* The repository holds two front-ends:                                    *)
(*   - sunbreeze/wsgi.py: a synchronous router keyed by path templates     *)
(*     matched with parse.parse (SpecWsgi);                                *)
(*   - sunbreeze/__init__.py: class-based views (BaseView) registered on   *)
(*     a Starlette router, with an error boundary in BaseView.__call__     *)
(*     (SpecAsgi).                                                         *)
(*                                                                         *)
(* Text is a sequence of tokens.  A request path and a route template are  *)
(* sequences of one-character tokens; a `{name}` placeholder of a template *)
(* is one token.  A response body is a sequence of tokens as well.         *)
(***************************************************************************)
EXTENDS Naturals, Sequences, FiniteSets, Bags, TLC

VARIABLES
    routes,      \* wsgi.Sunbreeze.routes: insertion-ordered dict, as a sequence of [path, handler]
    app_routes,  \* Starlette router.routes of sunbreeze.Sunbreeze: the /static mount, then Route records
    debug,       \* sunbreeze.Sunbreeze.debug
    inflight,    \* the BaseView.__call__ coroutines suspended at an await: a bag of [endpoint, path, method, pc]
    op,          \* the operation that ended last
    args,        \* its arguments
    out          \* its outcome: [response, raised, calls, log]
                 \*   response: the response it returned (or sent), NoResponse if none
                 \*   raised:   the exception it raised to its caller, NoExc if none
                 \*   calls:    the handler invocations it made, in order
                 \*   log:      the log events it emitted, in order

vars == <<routes, app_routes, debug, inflight, op, args, out>>

(***************************************************************************)
(* Bounds                                                                  *)
(***************************************************************************)
MaxRoutes == 2
MaxSegments == 2
MaxViews == 2
MaxInFlight == 1

(***************************************************************************)
(* Status codes and fixed texts                                            *)
(***************************************************************************)
HTTP_OK == 200
HTTP_NOT_FOUND == 404
HTTP_METHOD_NOT_ALLOWED == 405
HTTP_SERVER_ERROR == 500

NOT_FOUND_TEXT == <<"Not Found">>
METHOD_NOT_ALLOWED_MESSAGE == <<"Method Not Allowed">>
GENERIC_ERROR_TEXT == <<"Something ducky happened.">>

None == "None"
NoExc == [type |-> "none", base |-> "none", msg |-> <<>>]
NoResponse == [status |-> 0, body |-> <<>>]
NoOutcome == [response |-> NoResponse, raised |-> NoExc, calls |-> <<>>, log |-> <<>>]
NoArgs == [path |-> <<>>, method |-> "", handler |-> None]
EmptyDict == [n \in {} |-> <<>>]

\* An exception value: its class, the class's place in the hierarchy
\* ("Exception", "Termination" for KeyboardInterrupt/SystemExit, or
\* "BaseException" for any other direct BaseException subclass) and message.
Exc(type, base, msg) == [type |-> type, base |-> base, msg |-> msg]

Min(S) == CHOOSE k \in S : \A m \in S : k <= m

\* A log event: the logger method called and the formatted message
LogEvent(level, msg) == [level |-> level, msg |-> msg]

(***************************************************************************)
(* Text                                                                    *)
(***************************************************************************)
\* A template is a sequence of literal characters and `{name}` fields
Fields == {"{name}", "{x}"}
FieldName(t) == IF t = "{name}" THEN "name" ELSE "x"

\* str.lower() and re.IGNORECASE folding on the alphabet
Lower(c) == IF c = "A" THEN "a" ELSE c

\* The values one path segment takes in a generated request path
SegmentValues == {<<>>, <<"a">>, <<"A">>}

\* The paths of exactly n segments, each preceded by its "/"
RECURSIVE PathsOf(_)
PathsOf(n) ==
    IF n = 0 THEN {<<>>}
    ELSE {p \o <<"/">> \o seg : p \in PathsOf(n - 1), seg \in SegmentValues}

\* request.path: a URL path, which starts with "/"
RequestPaths == UNION {PathsOf(n) : n \in 1..MaxSegments}

HttpMethods == {"GET", "POST"}
MethodLower(m) ==
    CASE m = "GET" -> "get"
      [] m = "POST" -> "post"
      [] m = "PUT" -> "put"
      [] m = "HEAD" -> "head"
      [] m = "DEBUG" -> "debug"
      [] m = "DISPATCH" -> "dispatch"

(***************************************************************************)
(* parse.parse(format, string): the format compiled to the regular         *)
(* expression \A...\Z with re.IGNORECASE | re.DOTALL, a `{name}` field     *)
(* being the non-greedy named group (?P<name>.+?), matched by              *)
(* backtracking.  The result is [ok, named].                               *)
(***************************************************************************)
NoMatch == [ok |-> FALSE, named |-> EmptyDict]

\* The end position the field at fmt[i], starting at string position j, takes
FieldEnd(ends) == Min(ends)

\* Mutant: the bound value is case-folded like the literals
BindField_folded(t, s, j, k) == FieldName(t) :> [n \in 1..(k - j + 1) |-> Lower(s[j + n - 1])]

BindField(t, s, j, k) == FieldName(t) :> SubSeq(s, j, k)

LiteralMatches(f, c) == Lower(f) = Lower(c)

RECURSIVE ParseAt(_, _, _, _)
ParseAt(fmt, i, s, j) ==
    IF i > Len(fmt)
    THEN [ok |-> j > Len(s), named |-> EmptyDict]
    ELSE IF fmt[i] \in Fields
    THEN LET ends == {k \in j..Len(s) : ParseAt(fmt, i + 1, s, k + 1).ok}
         IN IF ends = {} THEN NoMatch
            ELSE LET k == FieldEnd(ends)
                     rest == ParseAt(fmt, i + 1, s, k + 1)
                 IN [ok |-> TRUE, named |-> BindField(fmt[i], s, j, k) @@ rest.named]
    ELSE IF j <= Len(s) /\ LiteralMatches(fmt[i], s[j])
    THEN ParseAt(fmt, i + 1, s, j + 1)
    ELSE NoMatch

parse(fmt, s) == ParseAt(fmt, 1, s, 1)

(***************************************************************************)
(* wsgi.py: handlers (app.py) and how a call of one behaves                *)
(***************************************************************************)
WsgiHandlers == {"home", "greeting", "pair", "BooksResource", "broken"}

\* inspect.isclass(handler)
IsClass(h) == h = "BooksResource"

\* The operations a resource class defines, looked up by getattr
ClassOps(h) == IF h = "BooksResource" THEN {"get"} ELSE {}

\* The keyword parameters a callable takes after (request, response)
Params(h, attr) ==
    CASE h = "greeting" -> {"name"}
      [] h = "pair" -> {"x", "name"}
      [] OTHER -> {}

\* The (path, handler) pairs the application registers
Registrations ==
    { [path |-> <<"/", "a">>, handler |-> "home"],
      [path |-> <<"/", "a">>, handler |-> "BooksResource"],
      [path |-> <<"/", "a">>, handler |-> "broken"],
      [path |-> <<"/", "{name}">>, handler |-> "greeting"],
      [path |-> <<"/", "{name}">>, handler |-> "home"],
      [path |-> <<"/", "a", "/", "{name}">>, handler |-> "greeting"],
      [path |-> <<"/", "{x}", "/", "{name}">>, handler |-> "pair"] }

\* webob.Response(): status 200, empty body
Response == [status |-> HTTP_OK, body |-> <<>>]

\* webob.Request(environ): the fields the application reads
Request(method, path) == [method |-> method, path |-> path]

\* What the body of a handler does: the response it leaves, what it raises
\* and what it logs
HandlerBody(h, attr, request, resp, kwargs) ==
    CASE h = "home" ->
            [response |-> [resp EXCEPT !.body = <<"Hello, World!">>], raised |-> NoExc,
             log |-> <<>>]
      [] h = "greeting" ->
            [response |-> [resp EXCEPT !.body = <<"Hello, ">> \o kwargs["name"]], raised |-> NoExc,
             log |-> <<>>]
      [] h = "pair" ->
            [response |-> [resp EXCEPT !.body = kwargs["x"] \o <<" and ">> \o kwargs["name"]],
             raised |-> NoExc, log |-> <<>>]
      [] h = "BooksResource" ->
            [response |-> [resp EXCEPT !.body = <<"Books Page">>], raised |-> NoExc,
             log |-> <<LogEvent("debug", <<"GET ">> \o request.path)>>]
      [] OTHER ->
            [response |-> NoResponse,
             raised |-> Exc("RuntimeError", "Exception", <<"An error occurred.">>),
             log |-> <<>>]

\* handler(request, response, **kwargs): Python binds the keyword arguments
\* to the callable's parameters and raises TypeError when they do not fit.
Invoke(h, attr, request, resp, kwargs) ==
    LET call == [handler |-> h, attr |-> attr, kwargs |-> kwargs]
    IN IF DOMAIN kwargs # Params(h, attr)
       THEN [response |-> NoResponse,
             raised |-> Exc("TypeError", "Exception", <<"keyword arguments do not fit">>),
             calls |-> <<call>>,
             log |-> <<>>]
       ELSE HandlerBody(h, attr, request, resp, kwargs) @@ [calls |-> <<call>>]

(***************************************************************************)
(* wsgi.py: Sunbreeze                                                      *)
(***************************************************************************)
RoutePaths(rt) == {rt[i].path : i \in DOMAIN rt}

\* The result of `return None, None`, with named written as the empty dict
\* and index 0; index is the position of the route the loop returned at.
NotFound == [handler |-> None, named |-> EmptyDict, index |-> 0]

\* Mutant: the loop looks at the route registered last
FirstRoute_last(rt) == Len(rt)

\* The position the loop over routes.items() starts at
FirstRoute(rt) == 1

\* The position it visits after position i
NextRoute(rt, i) == i + 1

\* The templates the application registers
Templates == {reg.path : reg \in Registrations}

\* parse(path, request_path) of every registered template and request path
ParseResults == [fmt \in Templates, s \in RequestPaths |-> parse(fmt, s)]

\* The loop of find_handler from position i on: the first route whose
\* template parse() matches returns (handler, parse_result.named)
RECURSIVE FindFrom(_, _, _)
FindFrom(rt, i, request_path) ==
    IF i \notin DOMAIN rt THEN NotFound
    ELSE LET parse_result == ParseResults[rt[i].path, request_path]
         IN IF parse_result.ok
            THEN [handler |-> rt[i].handler, named |-> parse_result.named, index |-> i]
            ELSE FindFrom(rt, NextRoute(rt, i), request_path)

find_handler(rt, request_path) == FindFrom(rt, FirstRoute(rt), request_path)

\* Mutant: the status is left at the default
default_response_body_only(resp) == [resp EXCEPT !.body = NOT_FOUND_TEXT]

default_response(resp) == [resp EXCEPT !.status = HTTP_NOT_FOUND, !.body = NOT_FOUND_TEXT]

\* The lines of handle_request after find_handler returned `found`
Dispatch(found, request) ==
    LET \* `if not kwargs: kwargs = {}`: None and the empty dict both become {}
        kwargs == IF found.handler = None \/ DOMAIN found.named = {}
                  THEN EmptyDict ELSE found.named
        attr == MethodLower(request.method)
    IN IF found.handler # None
       THEN IF IsClass(found.handler)
            THEN IF attr \notin ClassOps(found.handler)
                 THEN [response |-> NoResponse,
                       raised |-> Exc("AttributeError", "Exception", <<"Method now allowed">>),
                       calls |-> <<>>,
                       log |-> <<>>]
                 ELSE Invoke(found.handler, attr, request, Response, kwargs)
            ELSE Invoke(found.handler, "__call__", request, Response, kwargs)
       ELSE [response |-> default_response(Response), raised |-> NoExc, calls |-> <<>>,
             log |-> <<>>]

\* logger.info(f"Request: {request.method} {request.path}")
RequestEvent(request) == LogEvent("info", <<"Request: ", request.method, " ">> \o request.path)

\* handle_request: the request is logged, then dispatched
handle_request(rt, request) ==
    LET d == Dispatch(find_handler(rt, request.path), request)
    IN [d EXCEPT !.log = <<RequestEvent(request)>> \o d.log]

\* Sunbreeze.__call__, the WSGI entry point: it logs the request itself,
\* calls handle_request and returns what the response gives the server; an
\* exception of handle_request passes through it
Sunbreeze_call(rt, request) ==
    LET h == handle_request(rt, request)
    IN [h EXCEPT !.log = <<RequestEvent(request)>> \o h.log]

\* Mutant: a registered path is assigned again, as `routes[path] = handler` does
AddedRoutes_overwrite(rt, path, handler) ==
    IF path \in RoutePaths(rt)
    THEN [i \in DOMAIN rt |-> IF rt[i].path = path THEN [path |-> path, handler |-> handler] ELSE rt[i]]
    ELSE Append(rt, [path |-> path, handler |-> handler])

\* The route table add_route leaves behind
AddedRoutes(rt, path, handler) ==
    IF path \in RoutePaths(rt) THEN rt ELSE Append(rt, [path |-> path, handler |-> handler])

\* What add_route raises and logs
AddRouteOutcome(rt, path) ==
    IF path \in RoutePaths(rt)
    THEN [response |-> NoResponse,
          raised |-> Exc("AssertionError", "Exception",
                         <<"Route '">> \o path \o <<"' already exists.">>),
          calls |-> <<>>,
          log |-> <<LogEvent("error", <<"Route '">> \o path \o <<"' already exists.">>)>>]
    ELSE NoOutcome

\* api.add_route(path, handler), also reached as @api.route(path) applied to
\* handler: the decorator's wrapper calls add_route and returns the handler.
add_route == \E reg \in Registrations :
    /\ reg.path \in RoutePaths(routes) \/ Len(routes) < MaxRoutes
    /\ routes' = AddedRoutes(routes, reg.path, reg.handler)
    /\ out' = AddRouteOutcome(routes, reg.path)
    /\ op' = "add_route"
    /\ args' = [path |-> reg.path, method |-> "", handler |-> reg.handler]
    /\ UNCHANGED <<app_routes, debug, inflight>>

\* api.handle_request(request), called directly
HandleRequest == \E path \in RequestPaths, method \in HttpMethods :
    /\ op' = "handle_request"
    /\ args' = [path |-> path, method |-> method, handler |-> None]
    /\ out' = handle_request(routes, Request(method, path))
    /\ UNCHANGED <<routes, app_routes, debug, inflight>>

\* api(environ, start_response): a request served through the WSGI entry point
WsgiCall == \E path \in RequestPaths, method \in HttpMethods :
    /\ op' = "__call__"
    /\ args' = [path |-> path, method |-> method, handler |-> None]
    /\ out' = Sunbreeze_call(routes, Request(method, path))
    /\ UNCHANGED <<routes, app_routes, debug, inflight>>

InitWsgi ==
    /\ routes = <<>>
    /\ app_routes = <<>>
    /\ debug = FALSE
    /\ inflight = EmptyBag
    /\ op = "init"
    /\ args = NoArgs
    /\ out = NoOutcome

NextWsgi == add_route \/ HandleRequest \/ WsgiCall

SpecWsgi == InitWsgi /\ [][NextWsgi]_vars

(***************************************************************************)
(* sunbreeze/__init__.py: views and what their operations do               *)
(***************************************************************************)
ViewClasses == {"SimpleView", "ErrorView", "StopView"}

\* The request methods the transport delivers
AsgiMethods == {"GET", "HEAD", "POST", "PUT", "DEBUG", "DISPATCH"}

\* The path a view is registered at
ViewPaths == {<<"/">>}

\* PlainTextResponse(content=...): status 200
PlainTextResponse(content) == [status |-> HTTP_OK, body |-> content]

Returns(resp) == [response |-> resp, raised |-> NoExc]
Raises(exc) == [response |-> NoResponse, raised |-> exc]

\* The HTTP-method operations a view class defines
ViewOps(cls) ==
    CASE cls = "SimpleView" -> {"get", "post"}
      [] cls = "ErrorView" -> {"get", "post"}
      [] cls = "StopView" -> {"get", "post", "put"}

\* What awaiting an operation gives
ViewOp(cls, attr) ==
    CASE cls = "SimpleView" /\ attr = "get" -> Returns(PlainTextResponse(<<"GET response">>))
      [] cls = "SimpleView" /\ attr = "post" -> Returns(PlainTextResponse(<<"POST response">>))
      [] cls = "ErrorView" /\ attr = "get" ->
            Raises(Exc("RuntimeError", "Exception", <<"Intentional error for testing">>))
      [] cls = "ErrorView" /\ attr = "post" ->
            Raises(Exc("KeyError", "Exception", <<"'", "name", "'">>))
      [] cls = "StopView" /\ attr = "get" -> Raises(Exc("KeyboardInterrupt", "Termination", <<>>))
      [] cls = "StopView" /\ attr = "post" -> Raises(Exc("SystemExit", "Termination", <<>>))
      [] cls = "StopView" /\ attr = "put" -> Raises(Exc("CancelledError", "BaseException", <<>>))

\* The attributes every BaseView instance has besides its operations
BaseViewAttrs == {"debug", "templates", "dispatch"}

\* hasattr(self, method)
HasAttr(cls, attr) == attr \in ViewOps(cls) \cup BaseViewAttrs

\* Mutant: the method is looked up as sent, not lowercased
ViewAttr_raw(method) == method

\* request.method.lower()
ViewAttr(method) == MethodLower(method)

\* BaseView.dispatch: [response, raised, calls]
dispatch(view, method) ==
    LET attr == ViewAttr(method)
    IN IF HasAttr(view.cls, attr)
       THEN IF attr \in ViewOps(view.cls)
            THEN ViewOp(view.cls, attr)
                     @@ [calls |-> <<[handler |-> view.cls, attr |-> attr, kwargs |-> EmptyDict]>>]
            ELSE IF attr = "dispatch"
            THEN \* dispatch awaits itself until the interpreter's recursion limit
                 Raises(Exc("RecursionError", "Exception",
                            <<"maximum recursion depth exceeded">>)) @@ [calls |-> <<>>]
            ELSE \* self.debug and self.templates are not callable
                 Raises(Exc("TypeError", "Exception",
                            <<"'", IF attr = "debug" THEN "bool" ELSE "Environment", "'",
                              " object is not callable">>)) @@ [calls |-> <<>>]
       ELSE Returns([status |-> HTTP_METHOD_NOT_ALLOWED, body |-> METHOD_NOT_ALLOWED_MESSAGE])
                @@ [calls |-> <<>>]

\* traceback.format_exc() of the exception being handled
format_exc(exc) ==
    <<"Traceback (most recent call last):", "  File ", "\"", "view.py", "\"",
      ", line 1, in ", exc.type, ": ">> \o exc.msg

\* templates.get_template("error.html").render(traceback=..., request=...):
\* the template's own text, then its `traceback` field, which holds the
\* failure's message and the trace
RenderErrorTemplate(traceback_info) ==
    <<"error.html: ">> \o traceback_info

\* The `except Exception` branch of BaseView.__call__
ErrorResponse(view_debug, exc) ==
    IF view_debug
    THEN [status |-> HTTP_SERVER_ERROR, body |-> RenderErrorTemplate(format_exc(exc))]
    ELSE [status |-> HTTP_SERVER_ERROR, body |-> GENERIC_ERROR_TEXT]

\* Mutant: the `except (KeyboardInterrupt, SystemExit)` clause is missing
IsTermination_never(exc) == FALSE

\* isinstance(exc, (KeyboardInterrupt, SystemExit))
IsTermination(exc) == exc.base = "Termination"

\* isinstance(exc, Exception)
IsException(exc) == exc.base = "Exception"

\* BaseView.__call__: [response, raised, calls, log]; response is the one
\* sent with `await response(scope, receive, send)`
BaseView_call(view, method) ==
    LET d == dispatch(view, method)
    IN IF d.raised = NoExc
       THEN [response |-> d.response, raised |-> NoExc, calls |-> d.calls, log |-> <<>>]
       ELSE IF IsTermination(d.raised)
       THEN [response |-> NoResponse, raised |-> d.raised, calls |-> d.calls,
             log |-> <<LogEvent("exception", <<"Application stopped by user.">>)>>]
       ELSE IF IsException(d.raised)
       THEN [response |-> ErrorResponse(view.debug, d.raised), raised |-> NoExc,
             calls |-> d.calls, log |-> <<>>]
       ELSE [response |-> NoResponse, raised |-> d.raised, calls |-> d.calls, log |-> <<>>]

(***************************************************************************)
(* sunbreeze/__init__.py: Sunbreeze                                        *)
(***************************************************************************)
\* methods=None
AnyMethod == {"*"}

\* str.upper() on a method name
MethodUpper(m) ==
    CASE m = "get" -> "GET"
      [] m = "post" -> "POST"
      [] OTHER -> m

\* starlette Route(path, endpoint, methods): the methods are upper-cased and
\* HEAD is added when GET is among them; methods None, with an endpoint that
\* is no function, stays None and admits every method
Route(path, endpoint, methods) ==
    [kind |-> "Route", path |-> path, endpoint |-> endpoint,
     methods |-> IF methods = AnyMethod THEN AnyMethod
                 ELSE LET upper == {MethodUpper(m) : m \in methods}
                      IN upper \cup (IF "GET" \in upper THEN {"HEAD"} ELSE {})]

\* app.mount("/static", StaticFiles(directory=static_dir), name="static")
STATIC_PATH == <<"/", "static">>
StaticFiles == [cls |-> "StaticFiles", debug |-> FALSE]
Mount(path, app) == [kind |-> "Mount", path |-> path, endpoint |-> app, methods |-> AnyMethod]

IsRoute(r) == r.kind = "Route"

\* The number of views on the router: its entries but the /static mount,
\* which is there from construction on
Views(rt) == Len(rt) - 1
Admits(r, method) == r.methods = AnyMethod \/ method \in r.methods

IsPrefix(p, s) == Len(p) <= Len(s) /\ SubSeq(s, 1, Len(p)) = p

\* Whether the router's entry r takes the request: a mount takes every path
\* under its own, a route its own path with a method it admits
Matches(r, path, method) ==
    IF IsRoute(r) THEN r.path = path /\ Admits(r, method)
    ELSE IsPrefix(r.path \o <<"/">>, path)

\* The router takes the first entry of router.routes that matches, 0 if none
FirstMatch(rt, path, method) ==
    LET matching == {i \in DOMAIN rt : Matches(rt[i], path, method)}
    IN IF matching = {} THEN 0 ELSE Min(matching)

\* cls(debug=..., app=...)
Instance(cls, view_debug) == [cls |-> cls, debug |-> view_debug]

\* The methods arguments a view is registered with; AnyMethod is methods=None
ViewMethods == {AnyMethod, {"get", "POST"}}

\* @app.view(path, methods=...) applied to cls; methods None defaults to GET, HEAD
view == \E path \in ViewPaths, cls \in ViewClasses, methods \in ViewMethods :
    /\ Views(app_routes) < MaxViews
    /\ app_routes' = Append(app_routes,
                            Route(path, Instance(cls, debug),
                                  IF methods = AnyMethod THEN {"GET", "HEAD"} ELSE methods))
    /\ op' = "view"
    /\ args' = [path |-> path, method |-> "", handler |-> cls, debug |-> debug]
    /\ out' = [NoOutcome EXCEPT !.log =
                   (IF methods = AnyMethod
                    THEN <<LogEvent("debug", <<"No methods provided, defaulting to GET and HEAD.">>)>>
                    ELSE <<>>)
                   \o <<LogEvent("info", <<"View registered: ", cls, " at ">> \o path)>>]
    /\ UNCHANGED <<routes, debug, inflight>>

\* app.add_route(path, route), route an instance the caller made: its debug
\* flag is the caller's choice (False by default), whatever the application's
app_add_route == \E path \in ViewPaths, cls \in ViewClasses, view_debug \in BOOLEAN :
    /\ Views(app_routes) < MaxViews
    /\ app_routes' = Append(app_routes, Route(path, Instance(cls, view_debug), AnyMethod))
    /\ op' = "app_add_route"
    /\ args' = [path |-> path, method |-> "", handler |-> cls, debug |-> view_debug]
    /\ out' = [NoOutcome EXCEPT !.log =
                   <<LogEvent("info", <<"Route added: ", cls, " at ">> \o path)>>]
    /\ UNCHANGED <<routes, debug, inflight>>

(***************************************************************************)
(* A request served by a view.  BaseView.__call__ is a coroutine: it gives *)
(* the event loop back where its handler awaits (`await handler(request)`  *)
(* in dispatch) and where the transport's send awaits: `await              *)
(* response(scope, receive, send)` sends the http.response.start message   *)
(* and then the http.response.body message, and awaits each.  Other        *)
(* callbacks of the loop run in between.  A coroutine in flight is         *)
(* [endpoint, path, method, pc], pc the await it is suspended at:          *)
(* "handler", "send_start" or "send_body".                                 *)
(***************************************************************************)
\* The first await the coroutine reaches: the handler's, when dispatch finds
\* an operation; else the response is built at once and its sending starts
FirstAwait(endpoint, method) ==
    IF ViewAttr(method) \in ViewOps(endpoint.cls) THEN "handler" ELSE "send_start"

Coroutine(endpoint, path, method) ==
    [endpoint |-> endpoint, path |-> path, method |-> method,
     pc |-> FirstAwait(endpoint, method)]

CallArgs(c) ==
    [path |-> c.path, method |-> c.method, handler |-> c.endpoint.cls, debug |-> c.endpoint.debug]

\* The router hands a request to the endpoint of the first route that takes
\* it: endpoint(scope, receive, send) runs up to its first await.  (A request
\* no route takes, or one under the mount, never reaches a view.)
Call == \E path \in ViewPaths, method \in AsgiMethods :
    LET i == FirstMatch(app_routes, path, method)
    IN /\ BagCardinality(inflight) < MaxInFlight
       /\ i # 0
       /\ IsRoute(app_routes[i])
       /\ inflight' = inflight (+) SetToBag({Coroutine(app_routes[i].endpoint, path, method)})
       /\ UNCHANGED <<routes, app_routes, debug, op, args, out>>

\* The handler ends: what it returned is the response to send; what it
\* raised goes through the except clauses of __call__, which build the
\* response to send or raise again and end the call
HandlerEnds == \E c \in BagToSet(inflight) :
    LET result == BaseView_call(c.endpoint, c.method)
    IN /\ c.pc = "handler"
       /\ IF result.raised # NoExc
          THEN /\ inflight' = inflight (-) SetToBag({c})
               /\ op' = "call"
               /\ args' = CallArgs(c)
               /\ out' = result
          ELSE /\ inflight' = (inflight (-) SetToBag({c})) (+) SetToBag({[c EXCEPT !.pc = "send_start"]})
               /\ UNCHANGED <<op, args, out>>
       /\ UNCHANGED <<routes, app_routes, debug>>

\* The transport took the http.response.start message (status and headers);
\* the coroutine goes on to send the body and is suspended there
SendStart == \E c \in BagToSet(inflight) :
    /\ c.pc = "send_start"
    /\ inflight' = (inflight (-) SetToBag({c})) (+) SetToBag({[c EXCEPT !.pc = "send_body"]})
    /\ UNCHANGED <<routes, app_routes, debug, op, args, out>>

\* The transport took the http.response.body message: the response is sent
\* and the call ends
SendBody == \E c \in BagToSet(inflight) :
    /\ c.pc = "send_body"
    /\ inflight' = inflight (-) SetToBag({c})
    /\ op' = "call"
    /\ args' = CallArgs(c)
    /\ out' = BaseView_call(c.endpoint, c.method)
    /\ UNCHANGED <<routes, app_routes, debug>>

\* Sunbreeze(debug=...)
InitAsgi ==
    /\ routes = <<>>
    /\ app_routes = <<Mount(STATIC_PATH, StaticFiles)>>
    /\ debug \in BOOLEAN
    /\ inflight = EmptyBag
    /\ op = "init"
    /\ args = NoArgs
    /\ out = [NoOutcome EXCEPT !.log =
                  <<LogEvent("info", <<"Sunbreeze application initialized: ",
                                       "Sunbreeze", " v", "0.1.0">>)>>]

NextAsgi == view \/ app_add_route \/ Call \/ HandlerEnds \/ SendStart \/ SendBody

SpecAsgi == InitAsgi /\ [][NextAsgi]_vars

(***************************************************************************)
(* The path matcher as specified: `/`-delimited segments, a literal        *)
(* segment equal to the path's, a placeholder segment bound to one         *)
(* non-empty segment.  Used to state the properties below.                 *)
(***************************************************************************)
RECURSIVE Split(_)
Split(p) ==
    IF p = <<>> THEN << <<>> >>
    ELSE LET rest == Split(Tail(p))
         IN IF Head(p) = "/" THEN << <<>> >> \o rest
            ELSE << <<Head(p)>> \o Head(rest) >> \o Tail(rest)

IsPlaceholder(seg) == Len(seg) = 1 /\ seg[1] \in Fields

ShapeMatch(pattern, path) ==
    LET ps == Split(pattern)
        qs == Split(path)
    IN /\ Len(ps) = Len(qs)
       /\ \A i \in DOMAIN ps :
             IF IsPlaceholder(ps[i]) THEN qs[i] # <<>> ELSE ps[i] = qs[i]

SegmentBinding(pattern, path) ==
    LET ps == Split(pattern)
        qs == Split(path)
        at(n) == CHOOSE i \in DOMAIN ps : IsPlaceholder(ps[i]) /\ FieldName(ps[i][1]) = n
    IN [n \in {FieldName(ps[i][1]) : i \in {k \in DOMAIN ps : IsPlaceholder(ps[k])}} |-> qs[at(n)]]

\* The operations that serve a request: handle_request, called directly or
\* through the WSGI entry point
RequestOps == {"handle_request", "__call__"}

\* The routes whose template the lookup's matcher matches against the path
Matching(rt, request_path) == {i \in DOMAIN rt : parse(rt[i].path, request_path).ok}

(***************************************************************************)
(* Properties of the wsgi front-end (SpecWsgi)                             *)
(***************************************************************************)

\* C1: add_route (and @route) of a path that is already registered raises
\* an error to the registering code and leaves the route table as it was:
\* the path's first registration is still in the table, at its place, and
\* a request for that path is looked up to the same handler as before.
C1_DuplicateRejected ==
    [][ (op' = "add_route" /\ args'.path \in RoutePaths(routes)) =>
          /\ out'.raised.type = "AssertionError"
          /\ routes' = routes
          /\ \E i \in DOMAIN routes' : routes'[i].path = args'.path /\ routes'[i] = routes[i]
          /\ \A p \in {args'.path} \cap RequestPaths :
                find_handler(routes', p) = find_handler(routes, p)
      ]_vars

\* A second registration of a path, with another handler, was refused
C1_Witness ==
    /\ op = "add_route"
    /\ out.raised.type = "AssertionError"
    /\ Len(routes) = 2
    /\ \E i \in DOMAIN routes : routes[i].path = args.path /\ routes[i].handler # args.handler

\* C2: a request whose path no registered route matches is answered with
\* status 404 and body "Not Found"; no handler is invoked and nothing is
\* raised, whatever the route table is (the empty one included).
C2_NotFound ==
    (op \in RequestOps /\ Matching(routes, args.path) = {}) =>
        /\ out.response = [status |-> 404, body |-> <<"Not Found">>]
        /\ out.calls = <<>>
        /\ out.raised = NoExc

\* A request missed every route of a non-empty table
C2_Witness ==
    /\ op = "handle_request"
    /\ Len(routes) >= 1
    /\ Matching(routes, args.path) = {}
    /\ out.response.status = 404

\* C3: a request that reaches a class-based handler with no operation for
\* its method is answered with status 405 and body "Method Not Allowed";
\* nothing is raised to the caller and no operation is invoked.
C3_MethodNotAllowed ==
    /\ (/\ op \in RequestOps
        /\ find_handler(routes, args.path).handler # None
        /\ IsClass(find_handler(routes, args.path).handler)
        /\ MethodLower(args.method) \notin ClassOps(find_handler(routes, args.path).handler)) =>
           /\ out.response = [status |-> 405, body |-> <<"Method Not Allowed">>]
           /\ out.raised = NoExc
           /\ out.calls = <<>>
    /\ (op = "call" /\ MethodLower(args.method) \notin ViewOps(args.handler)) =>
           /\ out.response = [status |-> 405, body |-> <<"Method Not Allowed">>]
           /\ out.raised = NoExc
           /\ out.calls = <<>>

\* C7: when several registered templates match the request path, the
\* lookup returns the handler and the bound parameters of the one that was
\* registered earliest, and that handler is the one invoked.
C7_FirstRegisteredWins ==
    (op \in RequestOps /\ Matching(routes, args.path) # {}) =>
        LET first == CHOOSE i \in Matching(routes, args.path) :
                         \A j \in Matching(routes, args.path) : i <= j
            found == find_handler(routes, args.path)
        IN /\ found.handler = routes[first].handler
           /\ found.named = parse(routes[first].path, args.path).named
           /\ \A n \in DOMAIN out.calls : out.calls[n].handler = routes[first].handler

\* Two routes with different handlers match the request path
C7_Witness ==
    /\ op = "handle_request"
    /\ \E i, j \in Matching(routes, args.path) :
           i < j /\ routes[i].handler # routes[j].handler
    /\ out.calls # <<>>

\* C8: for every registered template and request path of the template's
\* shape, the matcher binds each placeholder name to exactly the path
\* segment at the placeholder's position; the dispatch passes the lookup's
\* bindings to the handler as keyword arguments (template /a/{name}, path
\* /a/A: name = "A", body "Hello, A").
C8_PlaceholderBinding ==
    op \in RequestOps =>
        LET found == find_handler(routes, args.path)
        IN /\ \A i \in DOMAIN routes :
                 ShapeMatch(routes[i].path, args.path) =>
                     /\ parse(routes[i].path, args.path).ok
                     /\ parse(routes[i].path, args.path).named
                            = SegmentBinding(routes[i].path, args.path)
           /\ \A n \in DOMAIN out.calls :
                 /\ out.calls[n].kwargs = found.named
                 /\ ShapeMatch(routes[found.index].path, args.path) =>
                        out.calls[n].kwargs = SegmentBinding(routes[found.index].path, args.path)
                 /\ (out.calls[n].handler = "greeting" /\ out.raised = NoExc) =>
                        out.response.body = <<"Hello, ">> \o out.calls[n].kwargs["name"]

\* A two-placeholder template bound both segments and the handler got them
C8_Witness ==
    /\ op = "handle_request"
    /\ out.calls # <<>>
    /\ out.calls[1].handler = "pair"
    /\ out.calls[1].kwargs = ("x" :> <<"a">>) @@ ("name" :> <<"A">>)
    /\ out.response.body = <<"a", " and ", "A">>

\* C9: a template matches a request path only if both have the same
\* number of segments, every literal segment is equal and every
\* placeholder takes one non-empty segment.
C9_SegmentwiseMatch ==
    op \in RequestOps =>
        \A i \in Matching(routes, args.path) : ShapeMatch(routes[i].path, args.path)

(***************************************************************************)
(* Properties of the class-based front-end (SpecAsgi)                      *)
(***************************************************************************)
\* Whether text holds sub as a run of consecutive tokens
Contains(text, sub) ==
    \E i \in 0..Len(text) : i + Len(sub) <= Len(text) /\ SubSeq(text, i + 1, i + Len(sub)) = sub

\* What the operation the last call reached did, had nothing caught it
Reached == dispatch([cls |-> args.handler, debug |-> args.debug], args.method)

\* C4: when a handler raises an exception other than a termination signal
\* and debug mode, the application's configuration flag, is off, the
\* response has status 500 and its body is exactly "Something ducky
\* happened.": nothing is raised instead of it, and no token of the
\* exception's message or of the traceback is in it, whatever the exception.
C4_ProductionErrorIsGeneric ==
    (/\ op = "call"
     /\ ~debug
     /\ out.calls # <<>>
     /\ Reached.raised # NoExc
     /\ ~IsTermination(Reached.raised)) =>
        /\ out.response = [status |-> 500, body |-> <<"Something ducky happened.">>]
        /\ out.raised = NoExc
        /\ \A n \in DOMAIN format_exc(Reached.raised) :
              ~Contains(out.response.body, <<format_exc(Reached.raised)[n]>>)

\* C5: when a handler raises an exception other than a termination signal
\* and debug mode, the application's configuration flag, is on, the
\* response has status 500 and its body contains the exception's message as
\* raised and the traceback's marker.
C5_DebugBodyHasOriginalMessage ==
    (/\ op = "call"
     /\ debug
     /\ out.calls # <<>>
     /\ Reached.raised # NoExc
     /\ ~IsTermination(Reached.raised)) =>
        /\ out.response.status = 500
        /\ Contains(out.response.body, Reached.raised.msg)
        /\ Contains(out.response.body, <<"Traceback (most recent call last):">>)

\* C6: when the view has an operation for the request's method, dispatch
\* invokes the operation named by the lowercased method, that one and once,
\* and what it returns is the response sent: status 200 with its body.
C6_OperationSelectedByMethod ==
    (op = "call" /\ MethodLower(args.method) \in ViewOps(args.handler)) =>
        /\ Len(out.calls) = 1
        /\ out.calls[1].handler = args.handler
        /\ out.calls[1].attr = MethodLower(args.method)
        /\ ViewOp(args.handler, MethodLower(args.method)).raised = NoExc =>
              /\ out.response = ViewOp(args.handler, MethodLower(args.method)).response
              /\ out.response.status = 200
              /\ out.raised = NoExc
        /\ (args.handler = "SimpleView" /\ args.method = "GET") =>
              out.response = [status |-> 200, body |-> <<"GET response">>]
        /\ (args.handler = "SimpleView" /\ args.method = "POST") =>
              out.response = [status |-> 200, body |-> <<"POST response">>]

\* A view with get and post answered a POST
C6_Witness ==
    /\ op = "call"
    /\ args.handler = "SimpleView"
    /\ args.method = "POST"
    /\ out.response.body = <<"POST response">>

\* C10: a KeyboardInterrupt or SystemExit raised during dispatch is logged
\* and raised again to the caller; no response is sent for it, in debug
\* and in production mode alike.
C10_TerminationReraised ==
    (op = "call" /\ Reached.raised.type \in {"KeyboardInterrupt", "SystemExit"}) =>
        /\ out.raised = Reached.raised
        /\ out.response = NoResponse
        /\ out.log = <<LogEvent("exception", <<"Application stopped by user.">>)>>

\* A debug-mode view's operation raised SystemExit
C10_Witness ==
    /\ op = "call"
    /\ args.debug
    /\ out.raised.type = "SystemExit"
    /\ out.log # <<>>

\* C11: every handler failure the error boundary turns into a 500 response
\* is logged as well, in debug and in production mode: no such response
\* is sent without a log event for the failure.
C11_FailureLogged ==
    (op = "call" /\ IsException(Reached.raised) /\ out.response.status = 500) =>
        out.log # <<>>

\* C12: a handler's exception other than a termination signal stays
\* inside the request's dispatch, in either front-end: the dispatch ends by
\* returning a response, with status 500, and raises nothing to its caller.
C12_FailureContained ==
    /\ (/\ op \in RequestOps
        /\ out.calls # <<>>
        /\ DOMAIN out.calls[1].kwargs = Params(out.calls[1].handler, out.calls[1].attr)
        /\ IsException(HandlerBody(out.calls[1].handler, out.calls[1].attr,
                                   Request(args.method, args.path), Response,
                                   out.calls[1].kwargs).raised)) =>
           /\ out.raised = NoExc
           /\ out.response.status = 500
    /\ (op = "call" /\ out.calls # <<>> /\ IsException(Reached.raised)) =>
           /\ out.raised = NoExc
           /\ out.response.status = 500

====
